---- MODULE Spec2Model ----
(***************************************************************************)
(* The `git sync` command of git-branchless                                *)
(* (git-branchless/src/commands/sync.rs) as a state machine over a small   *)
(* commit graph: one invocation walks through syntax check, fetch,         *)
(* main-branch advance and the stack phase, and every side effect is       *)
(* appended to the trace `events`.  The subprocess calls of GitRunInfo      *)
(* (src/git/run.rs), run and run_hook, are operators on the outcome of the *)
(* child process; `proc` holds the last call.                              *)
(***************************************************************************)
EXTENDS Integers, Sequences, FiniteSets, TLC

VARIABLES
    parents,        \* object store: oid -> set of parent oids
    visible,        \* commits the Dag knows as active (not hidden/obsolete)
    mainRef,        \* OID of the local main branch reference
    upstreamKind,   \* "none": main tracks no upstream; "absent": the upstream
                    \* reference has no OID; "present": it has one
    upstreamOid,    \* OID of the remote-tracking reference of main
    remoteTip,      \* tip of main on the remote (what a fetch brings)
    nextOid,        \* next unused OID of the object store
    patch,          \* object store: oid -> patch identity of the commit
    txCount,        \* transaction ids allocated in the event log so far
    pc,             \* position of the running sync invocation
    args,           \* arguments of the invocation
    fetchTx,        \* event_tx_id of sync.rs:53
    execTx,         \* event_tx_id of sync.rs:82 (execute_options.event_tx_id)
    phase,          \* "main" or "stack": caller of execute_plans
    localMainOid,   \* local_main_branch_oid (sync.rs:153)
    upstreamMainOid, \* upstream_main_branch_oid (sync.rs:176)
    localCommits,   \* local_main_branch_commits (sync.rs:186)
    mainExit,       \* exit_code of execute_main_branch_sync_plan (sync.rs:100)
    mainBranchOid,  \* main_branch_oid read at sync.rs:306
    rootOids,       \* root_commit_oids, sorted (sync.rs:324)
    plans,          \* root_commit_and_plans / per-root build results
    idx,            \* loop index into rootOids / plans
    success,        \* success_commits
    conflict,       \* merge_conflict_commits
    skipped,        \* skipped_commits
    exitCode,       \* exit code of the invocation, Running while it runs
    retKind,        \* "none" while running, "Ok" / "Err" of sync's eyre::Result
    events,         \* trace of the side effects of the current invocation
    run,            \* number of the invocation (1 or 2)
    prevEvents,     \* trace of the previous invocation
    prevExit,       \* exit code of the previous invocation
    upstreamChanged, \* the remote moved between the two invocations
    proc,           \* the last call of GitRunInfo::run or GitRunInfo::run_hook
    dag             \* commits of the Dag that sync has opened (sync.rs:144, 291)

repoVars == <<parents, visible, mainRef, upstreamKind, upstreamOid, remoteTip, nextOid,
              patch>>
mainVars == <<localMainOid, upstreamMainOid, localCommits>>
loopVars == <<phase, mainVars, mainExit, mainBranchOid, rootOids, plans, idx, success, conflict, skipped>>
histVars == <<run, prevEvents, prevExit, upstreamChanged>>
vars == <<repoVars, txCount, pc, args, fetchTx, execTx, loopVars, exitCode, retKind,
          events, histVars, proc, dag>>

----------------------------------------------------------------------------
(* Bounds of the model *)

MaxStacks == 3
MaxOid == 24

----------------------------------------------------------------------------
(* Values *)

None == 0          \* Option::None of an OID or of a transaction id
Running == -1      \* no exit code yet
FailCodes == {1, 2}            \* non-zero exit codes of external processes
Oids == 1..MaxOid

\* The object store before the first sync:
\*   1           the initial commit
\*   2 -> 1      a local commit
\*   3 -> 1      the commit the remote main has gained
\*   4 -> 1      a second local commit
\*   5 -> 2, 4   a local merge commit (on main, or a draft above two roots)
\*   5+k         the root commit of draft stack k, on 1 (k odd) or on 2 (k even)
MergeOid == 5
StackOid(k) == 5 + k
FirstFreshOid == 5 + MaxStacks + 1
InitParents ==
    [o \in Oids |->
        CASE o = 1 -> {}
          [] o \in {2, 3, 4} -> {1}
          [] o = 5 -> {2, 4}
          [] o > 5 /\ o < FirstFreshOid -> IF (o - 5) % 2 = 1 THEN {1} ELSE {2}
          [] OTHER -> {}]

\* The patch identity of the commits before the first sync: the root of draft
\* stack 1 carries the change that the remote main has gained as commit 3;
\* every other commit carries a change of its own.
InitPatch ==
    [o \in Oids |->
        IF o >= FirstFreshOid THEN None
        ELSE IF o = StackOid(1) THEN 3 ELSE o]

RevsetChoices == {{}, {"bad"}, {"unres"}, {"draft"}, {"main"}, {"draft", "main"}}

Args == [pull : BOOLEAN,
         force_rewrite_public_commits : BOOLEAN,
         detect_duplicate_commits_via_patch_id : BOOLEAN,
         revsets : RevsetChoices]

NoArgs == [pull |-> FALSE, force_rewrite_public_commits |-> FALSE,
           detect_duplicate_commits_via_patch_id |-> FALSE, revsets |-> {}]

----------------------------------------------------------------------------
(* The trace of side effects *)

Ev(op, ph, oid, res, code, tx, force, detect) ==
    [op |-> op, phase |-> ph, oid |-> oid, res |-> res, code |-> code, tx |-> tx,
     force |-> force, detect |-> detect]

TxEv(msg, id) == Ev("tx", "", None, msg, 0, id, FALSE, FALSE)
FetchEv(tx, code) == Ev("fetch", "", None, "", code, tx, FALSE, FALSE)
RefWriteEv(oid) == Ev("refwrite", "main", oid, "", 0, None, FALSE, FALSE)
VerifyEv(ph, force, detect, ok) ==
    Ev("verify", ph, None, IF ok THEN "Ok" ELSE "Err", 0, None, force, detect)
BuildEv(ph, root, res, force, detect) == Ev("build", ph, root, res, 0, None, force, detect)
ExecEv(ph, root, res, code, tx) == Ev("exec", ph, root, res, code, tx, FALSE, FALSE)
HandedEv(ph, root, plan) == Ev("handed", ph, root, plan, 0, None, FALSE, FALSE)
PrintEv(ph, msg, oid) == Ev("print", ph, oid, msg, 0, None, FALSE, FALSE)

Synced == "Synced"
MergeConflict == "Merge conflict for"
NotMoving == "Not moving up-to-date stack at"
Buckets == {Synced, MergeConflict, NotMoving}

----------------------------------------------------------------------------
(* The commit graph *)

RECURSIVE Anc(_, _)
\* A commit and all its ancestors in the graph par.
Anc(par, o) == {o} \cup UNION {Anc(par, p) : p \in par[o]}

AncSet(par, S) == UNION {Anc(par, o) : o \in S}

\* dag.query().only(include, exclude)
Only(include, exclude) == AncSet(parents, include) \ AncSet(parents, exclude)

\* dag.query().roots(set): the elements with no parent in the set
Roots(S) == {c \in S : parents[c] \cap S = {}}

PublicCommits == Anc(parents, mainRef)
DraftCommits == visible \ PublicCommits

\* Commit::get_only_parent: Some(parent) for a commit with exactly one parent
OnlyParent(c) == IF Cardinality(parents[c]) = 1 THEN CHOOSE p \in parents[c] : TRUE ELSE None

RECURSIVE SortedSeq(_)
\* sorted_commit_set: the commits of the set in a fixed order
SortedSeq(S) ==
    IF S = {} THEN <<>>
    ELSE LET m == CHOOSE x \in S : \A y \in S : x <= y
         IN <<m>> \o SortedSeq(S \ {m})

Range(s) == {s[i] : i \in 1..Len(s)}

----------------------------------------------------------------------------
(* Collaborators of sync.rs that live outside the two source files *)

\* RebasePlanPermissions::verify_rewrite_set: refuses a set that contains a
\* public commit unless force_rewrite_public_commits is set.
VerifyRewriteSet(force, S) == force \/ (S \cap PublicCommits = {})

\* resolve_commits on one revset that passed the syntax check.
Resolve(r) == IF r = "main" THEN {mainRef} ELSE DraftCommits

\* RebasePlanBuilder::build after move_subtree(root, [dest]): a structural
\* error when dest is root or one of its descendants (a cycle); otherwise
\* the no-op sentinel when the root's only parent is dest already; otherwise
\* a plan or a structural error.
BuildResults(root, dest) ==
    IF root \in Anc(parents, dest) THEN {"Err"}
    ELSE IF parents[root] = {dest} THEN {"None"}
    ELSE {"Plan", "Err"}

\* The subtree that move_subtree(root, ..) registers: the root and its
\* descendants in the Dag the builder was made from. A plan carries it as data,
\* so a successful execution rewrites these commits whatever has happened to
\* them since the Dag was opened.
Subtree(root) == {c \in dag : root \in Anc(parents, c)}
NewOid(S, c) == nextOid + Cardinality({x \in S : x < c})
NewOids(S) == {NewOid(S, c) : c \in S}

\* RebasePlanBuilder::build, duplicate detection: the commits of the subtree
\* that the plan classifies as "skip", those whose patch identity a commit on
\* the destination lineage already has (none when detection is off)
SkipSet(root, dest, detect) ==
    IF detect
    THEN {c \in Subtree(root) : \E d \in Anc(parents, dest) : patch[d] = patch[c]}
    ELSE {}

RECURSIVE NewParents(_, _, _, _)
\* What stands for the old parent p in the rewritten subtree: p itself outside
\* the subtree, its new commit when it was applied, and for a skipped commit
\* whatever stands for its own parents (the destination for the root)
NewParents(root, dest, skip, p) ==
    IF p \notin Subtree(root) THEN {p}
    ELSE IF p \notin skip THEN {NewOid(Subtree(root) \ skip, p)}
    ELSE IF p = root THEN {dest}
    ELSE UNION {NewParents(root, dest, skip, q) : q \in parents[p]}

\* The object store after the subtree of root has been rewritten onto dest:
\* every applied commit of the subtree gets a new OID, the root's parents
\* become {dest}, the other commits keep their place relative to the root.
RewrittenParents(root, dest, skip) ==
    LET A == Subtree(root) \ skip
    IN [o \in Oids |->
          IF o \in NewOids(A)
          THEN LET c == CHOOSE x \in A : NewOid(A, x) = o
               IN IF c = root THEN {dest}
                  ELSE UNION {NewParents(root, dest, skip, p) : p \in parents[c]}
          ELSE parents[o]]

\* A rewritten commit carries the patch of the commit it was made from.
RewrittenPatch(root, skip) ==
    LET A == Subtree(root) \ skip
    IN [o \in Oids |->
          IF o \in NewOids(A) THEN patch[CHOOSE x \in A : NewOid(A, x) = o]
          ELSE patch[o]]

\* What the executor may answer for a plan; Succeeded needs room for the
\* rewritten commits in the object store.
ExecResults(root) ==
    {<<"DeclinedToMerge", 0>>} \cup {<<"Failed", c>> : c \in FailCodes}
    \cup (IF nextOid + Cardinality(Subtree(root)) - 1 <= MaxOid
          THEN {<<"Succeeded", 0>>} ELSE {})

\* Effect of execute_rebase_plan on the repository.
ApplyExec(root, dest, skip, res) ==
    IF res = "Succeeded"
    THEN LET S == Subtree(root)
             A == S \ skip
         IN
         /\ parents' = RewrittenParents(root, dest, skip)
         /\ patch' = RewrittenPatch(root, skip)
         /\ visible' = (visible \ S) \cup NewOids(A) \cup Anc(parents, dest)
         /\ mainRef' = IF mainRef \in S
                       THEN CHOOSE m \in NewParents(root, dest, skip, mainRef) : TRUE
                       ELSE mainRef
         /\ nextOid' = nextOid + Cardinality(A)
         /\ UNCHANGED <<upstreamKind, upstreamOid, remoteTip>>
    ELSE UNCHANGED repoVars

----------------------------------------------------------------------------
(* GitRunInfo: git/run.rs *)

MaxTxId == 2
TxIds == 1..MaxTxId
Signals == {9, 15}
IsizeMax == 2147483647     \* the narrowest isize that run.rs is built for

\* std::process::ExitStatus: the child exited with a code or was ended by a
\* signal
ExitStatuses ==
    [kind : {"exited"}, code : {0} \cup FailCodes]
    \cup [kind : {"signaled"}, code : Signals]
NoStatus == [kind |-> "none", code |-> 0]

\* Option<T> as a sequence of at most one element
Some(x) == <<x>>
Nothing == <<>>
UnwrapOr(opt, default) == IF opt = Nothing THEN default ELSE opt[1]

\* ExitStatus::code(): None when the process was terminated by a signal
ExitStatusCode(st) == IF st.kind = "exited" THEN Some(st.code) ELSE Nothing

\* i32 -> isize by try_into (run.rs:82-84)
TryIntoIsize(c) == IF c >= -IsizeMax - 1 /\ c <= IsizeMax THEN Some(c) ELSE Nothing

RunExitCodeCollapsed(st) == IF st.kind = "exited" /\ st.code = 0 THEN 0 ELSE 1
\* run.rs:81: exit_status.code().unwrap_or(1)
RunExitCode(st) == UnwrapOr(ExitStatusCode(st), 1)

\* Directories a child process can be started in
Worktree == "worktree"     \* root of the working tree (repo.workdir())
GitDir == "gitdir"         \* repo.path()
Subdir == "subdir"         \* a directory below the working tree
WorkingDirectories == {Worktree, Subdir}     \* GitRunInfo.working_directory

\* What the operating system answers to spawn and wait
SpawnFailed == [kind |-> "spawn_failed", code |-> 0]     \* Command::spawn is Err
NoShell == [kind |-> "no_shell", code |-> 0]             \* get_sh() is None
ChildOutcomes == {SpawnFailed} \cup ExitStatuses
HookOutcomes == {NoShell, SpawnFailed} \cup ExitStatuses

NoProc ==
    [fn |-> "none", working_directory |-> "", event_tx_id |-> Nothing,
     hook_dir_exists |-> FALSE, hook_exists |-> FALSE, bare |-> FALSE,
     stdin |-> FALSE, spawn |-> "none", cwd |-> "", env_tx |-> Nothing,
     stdin_written |-> FALSE, status |-> NoStatus, ret |-> "none", code |-> Nothing]

\* run.rs:39-86: GitRunInfo::run
Run(working_directory, event_tx_id, outcome) ==
    LET call == [NoProc EXCEPT !.fn = "run",
                               !.working_directory = working_directory,
                               !.event_tx_id = event_tx_id]
    IN IF outcome.kind = "spawn_failed"
       THEN [call EXCEPT !.spawn = "failed", !.ret = "Err"]
       ELSE LET exit_code == TryIntoIsize(RunExitCode(outcome))
                child == [call EXCEPT !.spawn = "started",
                                      !.cwd = working_directory,
                                      !.env_tx = event_tx_id,
                                      !.status = outcome]
            IN IF exit_code = Nothing
               THEN [child EXCEPT !.ret = "Err"]
               ELSE [child EXCEPT !.ret = "Ok", !.code = exit_code]

\* run.rs:179: repo.workdir().unwrap_or_else(|| repo.path())
HookWorkingDirectory(bare) == UnwrapOr(IF bare THEN Nothing ELSE Some(Worktree), GitDir)

HookRunsAlways(hook_exists) == TRUE
\* run.rs:174: hook_dir.join(hook_name).exists()
HookRuns(hook_exists) == hook_exists

\* run.rs:167: std::fs::canonicalize(&hook_dir)? fails for a directory that
\* does not exist
CanonicalizeOk(hook_dir_exists) == hook_dir_exists

\* run.rs:197: let _ignored: ExitStatus = child.wait()?
HookResult(st) == "Ok"

\* run.rs:145-200: GitRunInfo::run_hook
RunHook(working_directory, bare, hook_dir_exists, hook_exists, event_tx_id, stdin, outcome) ==
    LET call == [NoProc EXCEPT !.fn = "run_hook",
                               !.working_directory = working_directory,
                               !.bare = bare,
                               !.hook_dir_exists = hook_dir_exists,
                               !.hook_exists = hook_exists,
                               !.event_tx_id = Some(event_tx_id),
                               !.stdin = stdin]
    IN IF ~CanonicalizeOk(hook_dir_exists) THEN [call EXCEPT !.ret = "Err"]
       ELSE IF ~HookRuns(hook_exists) THEN [call EXCEPT !.ret = "Ok"]
       ELSE IF outcome.kind = "no_shell" THEN [call EXCEPT !.ret = "Err"]
       ELSE IF outcome.kind = "spawn_failed"
            THEN [call EXCEPT !.spawn = "failed", !.ret = "Err"]
       ELSE [call EXCEPT !.spawn = "started",
                         !.cwd = HookWorkingDirectory(bare),
                         !.env_tx = Some(event_tx_id),
                         !.stdin_written = stdin,
                         !.status = outcome,
                         !.ret = HookResult(outcome)]

----------------------------------------------------------------------------
(* Initial states *)

InitRepo ==
    /\ parents = InitParents
    /\ mainRef \in {1, 2, 5}
    /\ upstreamKind \in {"none", "absent", "present"}
    /\ upstreamOid = IF upstreamKind = "present" THEN 1 ELSE None
    /\ remoteTip \in {1, 3}
    /\ upstreamKind # "present" => remoteTip = 1
    /\ \E n \in 0..MaxStacks, merge \in BOOLEAN :
          visible = Anc(InitParents, mainRef)
                    \cup AncSet(InitParents, {StackOid(k) : k \in 1..n})
                    \cup (IF merge THEN Anc(InitParents, MergeOid) ELSE {})
    /\ nextOid = FirstFreshOid
    /\ patch = InitPatch

InitInvocation ==
    /\ pc = "idle"
    /\ args = NoArgs
    /\ fetchTx = None /\ execTx = None
    /\ phase = "" /\ localCommits = {} /\ mainBranchOid = None
    /\ localMainOid = None /\ upstreamMainOid = None /\ mainExit = Running
    /\ rootOids = <<>> /\ plans = <<>> /\ idx = 1
    /\ success = <<>> /\ conflict = <<>> /\ skipped = <<>>
    /\ exitCode = Running /\ retKind = "none"
    /\ events = <<>>
    /\ dag = {}

Init ==
    /\ InitRepo
    /\ InitInvocation
    /\ txCount = 0
    /\ run = 1 /\ prevEvents = <<>> /\ prevExit = Running /\ upstreamChanged = FALSE
    /\ proc = NoProc

----------------------------------------------------------------------------
(* sync: sync.rs:41-129 *)

Emit(e) == events' = Append(events, e)

\* sync returns: Ok(exit code), or Err(report), which ends the process with 1
Return(code, kind) ==
    /\ exitCode' = code
    /\ retKind' = kind
    /\ pc' = "done"

StartSyncWithoutTransaction ==
    /\ pc = "idle"
    /\ \E a \in Args : args' = a
    /\ events' = <<>>
    /\ pc' = "check_revset_syntax"
    /\ UNCHANGED <<repoVars, txCount, fetchTx, execTx, loopVars, exitCode, retKind,
                   histVars, proc, dag>>
\* sync.rs:49-53: open the repository and event log, allocate "sync fetch"
StartSync ==
    /\ pc = "idle"
    /\ \E a \in Args : args' = a
    /\ txCount' = txCount + 1
    /\ fetchTx' = txCount + 1
    /\ events' = <<TxEv("sync fetch", txCount + 1)>>
    /\ pc' = "check_revset_syntax"
    /\ UNCHANGED <<repoVars, execTx, loopVars, exitCode, retKind, histVars, proc, dag>>

\* check_revset_syntax(&repo, &revsets)
SyntaxOk(revsets) == "bad" \notin revsets

CheckRevsetSyntaxUnchecked ==
    /\ pc = "check_revset_syntax"
    /\ pc' = IF args.pull THEN "fetch" ELSE "make_options"
    /\ UNCHANGED <<repoVars, txCount, args, fetchTx, execTx, loopVars, exitCode, retKind,
                   events, histVars, proc, dag>>
\* sync.rs:57-59
CheckRevsetSyntax ==
    /\ pc = "check_revset_syntax"
    /\ IF SyntaxOk(args.revsets)
       THEN /\ pc' = IF args.pull THEN "fetch" ELSE "make_options"
            /\ UNCHANGED <<exitCode, retKind>>
       ELSE Return(1, "Err")
    /\ UNCHANGED <<repoVars, txCount, args, fetchTx, execTx, loopVars, events, histVars, proc, dag>>

FetchContinuesAlways(code) == TRUE
\* sync.rs:61: !exit_code.is_success() returns the code
FetchContinues(code) == code = 0

\* sync.rs:60: the exit code sync sees is the one the fetch ended with
FetchExitCode(code) == code

\* sync.rs:59-64: git fetch --all through GitRunInfo::run, under the
\* "sync fetch" transaction
Fetch ==
    /\ pc = "fetch"
    /\ \E st \in ExitStatuses : LET code == RunExitCode(st) IN
          /\ Emit(FetchEv(fetchTx, code))
          /\ IF FetchContinues(code)
             THEN /\ upstreamOid' = IF upstreamKind = "present" /\ code = 0
                                    THEN remoteTip ELSE upstreamOid
                  /\ pc' = "make_options"
                  /\ UNCHANGED <<exitCode, retKind>>
             ELSE /\ Return(FetchExitCode(code), "Ok")
                  /\ UNCHANGED upstreamOid
    /\ UNCHANGED <<parents, visible, mainRef, upstreamKind, remoteTip, nextOid, patch,
                   txCount, args, fetchTx, execTx, loopVars, histVars, proc, dag>>

RunsMainBranchSyncAlways(a) == TRUE
\* sync.rs:99: the main-branch advance runs only for a pull
RunsMainBranchSync(a) == a.pull

\* sync.rs:66-99: build and execute options, the "sync" transaction
MakeOptions ==
    /\ pc = "make_options"
    /\ txCount' = txCount + 1
    /\ execTx' = txCount + 1
    /\ Emit(TxEv("sync", txCount + 1))
    /\ pc' = IF RunsMainBranchSync(args) THEN "main_open" ELSE "stack_open"
    /\ UNCHANGED <<repoVars, args, fetchTx, loopVars, exitCode, retKind, histVars, proc, dag>>

MainSyncContinuesAlways(code) == TRUE
\* sync.rs:110: a non-success exit code of the main-branch advance ends sync
MainSyncContinues(code) == code = 0

\* sync.rs:100-113: what sync does with the exit code of
\* execute_main_branch_sync_plan
MainReturn(code) ==
    /\ mainExit' = code
    /\ IF MainSyncContinues(code)
       THEN pc' = "stack_open" /\ UNCHANGED <<exitCode, retKind>>
       ELSE Return(code, "Ok")

----------------------------------------------------------------------------
(* execute_plans: sync.rs:376-463 *)

\* sync.rs:411-421: the bucket an executor result puts its root in
BucketOf(res) ==
    CASE res = "Succeeded" -> Synced
      [] res = "DeclinedToMerge" -> MergeConflict
      [] OTHER -> ""

IsNoPlanNever(plan) == FALSE
\* sync.rs:394-400: a root without a plan is skipped
IsNoPlan(plan) == plan = "None"

AbortsLoopOnConflict(res) == res # "Succeeded"
\* sync.rs:411-421: only a Failed result leaves the loop
AbortsLoop(res) == res = "Failed"

\* sync.rs:418-420: Failed { exit_code } ends execute_plans with that code
FailedExitCode(code) == code

\* The caller of execute_plans gets its exit code: sync itself (through
\* execute_sync_plans, sync.rs:366) or execute_main_branch_sync_plan
\* (sync.rs:266), whose code sync tests at sync.rs:110.
PlansReturn(code) ==
    IF phase = "main" THEN MainReturn(code)
    ELSE Return(code, "Ok") /\ UNCHANGED mainExit

ReportLinesWithoutConflicts(ph, succ, conf, skip) ==
    [i \in 1..Len(succ) |-> PrintEv(ph, Synced, succ[i])]
    \o [i \in 1..Len(skip) |-> PrintEv(ph, NotMoving, skip[i])]
\* sync.rs:427-460: the lines of the three buckets
ReportLines(ph, succ, conf, skip) ==
    [i \in 1..Len(succ) |-> PrintEv(ph, Synced, succ[i])]
    \o [i \in 1..Len(conf) |-> PrintEv(ph, MergeConflict, conf[i])]
    \o [i \in 1..Len(skip) |-> PrintEv(ph, NotMoving, skip[i])]

\* sync.rs:392-422: one iteration of the loop over root_commit_and_plans
ExecutePlan ==
    /\ pc = "execute_plans"
    /\ idx <= Len(plans)
    /\ LET p == plans[idx] IN
       IF IsNoPlan(p.plan)
       THEN /\ skipped' = Append(skipped, p.root)
            /\ idx' = idx + 1
            /\ UNCHANGED <<repoVars, pc, exitCode, retKind, mainExit, events, success,
                           conflict>>
       ELSE \E r \in ExecResults(p.root) :
            /\ Emit(ExecEv(phase, p.root, r[1], r[2], execTx))
            /\ ApplyExec(p.root, p.dest, p.skip, r[1])
            /\ IF AbortsLoop(r[1])
               THEN /\ PlansReturn(FailedExitCode(r[2]))
                    /\ UNCHANGED <<idx, success, conflict, skipped>>
               ELSE /\ success' = IF BucketOf(r[1]) = Synced
                                  THEN Append(success, p.root) ELSE success
                    /\ conflict' = IF BucketOf(r[1]) = MergeConflict
                                   THEN Append(conflict, p.root) ELSE conflict
                    /\ idx' = idx + 1
                    /\ UNCHANGED <<pc, exitCode, retKind, mainExit, skipped>>
    /\ UNCHANGED <<txCount, args, fetchTx, execTx, phase, mainVars, mainBranchOid,
                   rootOids, plans, histVars, proc, dag>>

\* sync.rs:424-462: after the loop, print the buckets and return ExitCode(0)
Report ==
    /\ pc = "execute_plans"
    /\ idx > Len(plans)
    /\ events' = events \o ReportLines(phase, success, conflict, skipped)
    /\ PlansReturn(0)
    /\ UNCHANGED <<repoVars, txCount, args, fetchTx, execTx, phase, mainVars,
                   mainBranchOid, rootOids, plans, idx, success, conflict, skipped, histVars, proc, dag>>

EnterExecutePlansReversed(ph, list, evs) ==
    /\ events' = evs \o [i \in 1..Len(list) |-> HandedEv(ph, list[i].root, list[i].plan)]
    /\ phase' = ph
    /\ plans' = [i \in 1..Len(list) |-> list[Len(list) + 1 - i]]
    /\ idx' = 1
    /\ success' = <<>> /\ conflict' = <<>> /\ skipped' = <<>>
    /\ pc' = "execute_plans"
\* execute_plans is entered with a list of (root, plan) pairs
EnterExecutePlans(ph, list, evs) ==
    /\ events' = evs \o [i \in 1..Len(list) |-> HandedEv(ph, list[i].root, list[i].plan)]
    /\ phase' = ph
    /\ plans' = list
    /\ idx' = 1
    /\ success' = <<>> /\ conflict' = <<>> /\ skipped' = <<>>
    /\ pc' = "execute_plans"

----------------------------------------------------------------------------
(* execute_main_branch_sync_plan: sync.rs:131-274 *)

BuildOptionsWithoutDetection(a) ==
    [force_rewrite_public_commits |-> a.force_rewrite_public_commits,
     detect_duplicate_commits_via_patch_id |-> FALSE]
\* sync.rs:75-80
BuildOptions(a) ==
    [force_rewrite_public_commits |-> a.force_rewrite_public_commits,
     detect_duplicate_commits_via_patch_id |-> a.detect_duplicate_commits_via_patch_id]

MainBuildOptionsFromDefaults(bo) ==
    [force_rewrite_public_commits |-> TRUE,
     detect_duplicate_commits_via_patch_id |-> FALSE]
\* sync.rs:227-232
MainBuildOptions(bo) == [bo EXCEPT !.force_rewrite_public_commits = TRUE]

\* sync.rs:186-189
LocalMainBranchCommits == Only({mainRef}, {upstreamOid})

NoLocalCommitsInverted(lmc) == lmc # {}
\* sync.rs:190: no unique local commits, so no rebase is needed
NoLocalCommits(lmc) == lmc = {}

CreatedReferenceLocal(local, upstream) == local
\* sync.rs:212-217: the OID create_reference gives the local main branch
CreatedReference(local, upstream) == upstream

\* sync.rs:191-211
AdvanceMessage(local, upstream) ==
    IF local = upstream THEN "Not updating" ELSE "Fast-forwarding"

\* sync.rs:141-225
MainOpen ==
    /\ pc = "main_open"
    /\ localMainOid' = mainRef
    /\ upstreamMainOid' = IF upstreamKind = "present" THEN upstreamOid ELSE None
    /\ dag' = visible \cup (IF upstreamKind = "present" THEN Anc(parents, upstreamOid) ELSE {})
    /\ CASE upstreamKind = "none" ->
              /\ Emit(PrintEv("main", "does not track an upstream branch", mainRef))
              /\ MainReturn(0)
              /\ UNCHANGED <<repoVars, localCommits>>
         [] upstreamKind = "absent" ->
              /\ MainReturn(0)
              /\ UNCHANGED <<repoVars, localCommits, events>>
         [] OTHER ->
              IF NoLocalCommits(LocalMainBranchCommits)
              THEN /\ events' = events \o
                        <<PrintEv("main", AdvanceMessage(mainRef, upstreamOid), upstreamOid),
                          RefWriteEv(CreatedReference(mainRef, upstreamOid))>>
                   /\ mainRef' = CreatedReference(mainRef, upstreamOid)
                   /\ visible' = visible \cup Anc(parents, mainRef')
                   /\ MainReturn(0)
                   /\ UNCHANGED <<parents, upstreamKind, upstreamOid, remoteTip, nextOid,
                                  patch, localCommits>>
              ELSE /\ Emit(PrintEv("main", "Syncing", mainRef))
                   /\ localCommits' = LocalMainBranchCommits
                   /\ pc' = "main_verify"
                   /\ UNCHANGED <<repoVars, exitCode, retKind, mainExit>>
    /\ UNCHANGED <<txCount, args, fetchTx, execTx, phase, mainBranchOid, rootOids, plans,
                   idx, success, conflict, skipped, histVars, proc>>

\* sync.rs:227-243
MainVerify ==
    /\ pc = "main_verify"
    /\ LET bo == MainBuildOptions(BuildOptions(args))
           ok == VerifyRewriteSet(bo.force_rewrite_public_commits, localCommits)
       IN /\ Emit(VerifyEv("main", bo.force_rewrite_public_commits,
                        bo.detect_duplicate_commits_via_patch_id, ok))
          /\ IF ok THEN pc' = "main_build" /\ UNCHANGED <<exitCode, retKind, mainExit>>
             ELSE MainReturn(1)
    /\ UNCHANGED <<repoVars, txCount, args, fetchTx, execTx, phase, mainVars,
                   mainBranchOid, rootOids, plans, idx, success, conflict, skipped, histVars, proc, dag>>

\* sync.rs:244-273
MainBuild ==
    /\ pc = "main_build"
    /\ LET bo == MainBuildOptions(BuildOptions(args))
           roots == Roots(localCommits)
       IN IF Cardinality(roots) # 1
          THEN /\ MainReturn(0)
               /\ UNCHANGED <<events, phase, mainVars, mainBranchOid, rootOids, plans, idx,
                              success, conflict, skipped>>
          ELSE LET root == CHOOSE r \in roots : TRUE IN
               \E res \in BuildResults(root, upstreamOid) :
                 LET built == Append(events,
                                  BuildEv("main", root, res, bo.force_rewrite_public_commits,
                                          bo.detect_duplicate_commits_via_patch_id))
                     rest == <<phase, mainVars, mainBranchOid, rootOids, plans, idx,
                               success, conflict, skipped>>
                 IN CASE res = "Err" ->
                           events' = built /\ MainReturn(1) /\ UNCHANGED rest
                      [] res = "None" ->
                           events' = built /\ MainReturn(0) /\ UNCHANGED rest
                      [] OTHER ->
                           /\ EnterExecutePlans("main",
                                 <<[root |-> root, plan |-> "Plan", dest |-> upstreamOid,
                                    skip |-> SkipSet(root, upstreamOid,
                                                bo.detect_duplicate_commits_via_patch_id)]>>,
                                 built)
                           /\ UNCHANGED <<exitCode, retKind, mainExit, mainVars,
                                          mainBranchOid, rootOids>>
    /\ UNCHANGED <<repoVars, txCount, args, fetchTx, execTx, histVars, proc, dag>>

----------------------------------------------------------------------------
(* execute_sync_plans: sync.rs:276-374 *)

\* resolve_commits fails on a revset it cannot evaluate
ResolveOk(revsets) == "unres" \notin revsets

\* sync.rs:288-305
StackResolve ==
    /\ pc = "stack_open"
    /\ IF ResolveOk(args.revsets)
       THEN pc' = "stack_verify" /\ UNCHANGED <<exitCode, retKind>>
       ELSE Return(1, "Ok")
    /\ dag' = visible
    /\ UNCHANGED <<repoVars, txCount, args, fetchTx, execTx, loopVars, events, histVars, proc>>

RootCommitOidsOfStacksOnly(revsets) == Roots(DraftCommits)
RootCommitOidsOfMergedUnits(revsets) ==
    LET R == IF revsets = {} THEN Roots(DraftCommits)
             ELSE Roots(UNION {Resolve(r) : r \in revsets})
    IN {a \in R : \A b \in R :
           b < a => ~\E m \in visible : a \in Anc(parents, m) /\ b \in Anc(parents, m)}
\* sync.rs:307-311
RootCommitOids(revsets) ==
    IF revsets = {} THEN Roots(DraftCommits)
    ELSE Roots(UNION {Resolve(r) : r \in revsets})

PermissionDeniedNever(ok) == FALSE
\* sync.rs:314-321: an Err of verify_rewrite_set ends sync with ExitCode(1)
PermissionDenied(ok) == ~ok

\* sync.rs:306-327
StackVerify ==
    /\ pc = "stack_verify"
    /\ LET bo == BuildOptions(args)
           roots == RootCommitOids(args.revsets)
           ok == VerifyRewriteSet(bo.force_rewrite_public_commits, roots)
       IN /\ Emit(VerifyEv("stack", bo.force_rewrite_public_commits,
                        bo.detect_duplicate_commits_via_patch_id, ok))
          /\ mainBranchOid' = mainRef
          /\ rootOids' = SortedSeq(roots)
          /\ plans' = <<>>
          /\ idx' = 1
          /\ IF PermissionDenied(ok) THEN Return(1, "Ok")
             ELSE pc' = "stack_build" /\ UNCHANGED <<exitCode, retKind>>
    /\ UNCHANGED <<repoVars, txCount, args, fetchTx, execTx, phase, mainVars, mainExit,
                   success, conflict, skipped, histVars, proc, dag>>

UpToDateStale(root, main) ==
    OnlyParent(root) = (IF localMainOid # None THEN localMainOid ELSE main)
\* sync.rs:342-346: the root is already on the main branch
UpToDate(root, main) == OnlyParent(root) = main

StackDestinationStale(main) == IF localMainOid # None THEN localMainOid ELSE main
\* sync.rs:348: move_subtree(root, vec![main_branch_oid])
StackDestination(main) == main

\* sync.rs:333-351: the closure that builds the plan of one root
StackBuild ==
    /\ pc = "stack_build"
    /\ idx <= Len(rootOids)
    /\ LET root == rootOids[idx]
           bo == BuildOptions(args)
       IN IF UpToDate(root, mainBranchOid)
          THEN /\ plans' = Append(plans, [root |-> root, plan |-> "None",
                                          dest |-> None, skip |-> {}])
               /\ UNCHANGED events
          ELSE \E res \in BuildResults(root, StackDestination(mainBranchOid)) :
               /\ Emit(BuildEv("stack", root, res, bo.force_rewrite_public_commits,
                               bo.detect_duplicate_commits_via_patch_id))
               /\ plans' = Append(plans,
                      [root |-> root, plan |-> res,
                       dest |-> StackDestination(mainBranchOid),
                       skip |-> IF res = "Plan"
                                THEN SkipSet(root, StackDestination(mainBranchOid),
                                             bo.detect_duplicate_commits_via_patch_id)
                                ELSE {}])
    /\ idx' = idx + 1
    /\ UNCHANGED <<repoVars, txCount, pc, args, fetchTx, execTx, phase, mainVars, mainExit,
                   mainBranchOid, rootOids, success, conflict, skipped, exitCode, retKind,
                   histVars, proc, dag>>

BuildFailedNever(list) == FALSE
\* sync.rs:353-365: a BuildRebasePlanError of any root
BuildFailed(list) == \E i \in 1..Len(list) : list[i].plan = "Err"

\* sync.rs:353-373: collect the results, then hand them to execute_plans
StackCollect ==
    /\ pc = "stack_build"
    /\ idx > Len(rootOids)
    /\ IF BuildFailed(plans)
       THEN Return(1, "Ok") /\ UNCHANGED <<loopVars, events>>
       ELSE /\ EnterExecutePlans("stack", plans, events)
            /\ UNCHANGED <<exitCode, retKind, mainVars, mainExit, mainBranchOid, rootOids>>
    /\ UNCHANGED <<repoVars, txCount, args, fetchTx, execTx, histVars, proc, dag>>

----------------------------------------------------------------------------
(* Specifications *)

Next ==
    \/ StartSync
    \/ CheckRevsetSyntax
    \/ Fetch
    \/ MakeOptions
    \/ MainOpen
    \/ MainVerify
    \/ MainBuild
    \/ StackResolve
    \/ StackVerify
    \/ StackBuild
    \/ StackCollect
    \/ ExecutePlan
    \/ Report

\* One invocation of sync on a repository.
Spec == Init /\ [][Next]_vars

----------------------------------------------------------------------------
(* Two invocations in succession *)

\* The user runs the same sync command again: sync.rs:49-53 of the second run.
Restart ==
    /\ pc = "done"
    /\ run = 1
    /\ run' = 2
    /\ prevEvents' = events
    /\ prevExit' = exitCode
    /\ txCount' = txCount + 1
    /\ fetchTx' = txCount + 1
    /\ events' = <<TxEv("sync fetch", txCount + 1)>>
    /\ pc' = "check_revset_syntax"
    /\ execTx' = None
    /\ phase' = "" /\ localCommits' = {} /\ mainBranchOid' = None
    /\ localMainOid' = None /\ upstreamMainOid' = None /\ mainExit' = Running
    /\ rootOids' = <<>> /\ plans' = <<>> /\ idx' = 1
    /\ success' = <<>> /\ conflict' = <<>> /\ skipped' = <<>>
    /\ exitCode' = Running /\ retKind' = "none"
    /\ dag' = {}
    /\ UNCHANGED <<repoVars, args, upstreamChanged, proc>>

\* The remote main branch gains a commit between the two invocations.
UpstreamAdvance ==
    /\ pc = "done"
    /\ run = 1
    /\ upstreamKind = "present"
    /\ remoteTip = 1
    /\ remoteTip' = 3
    /\ upstreamChanged' = TRUE
    /\ UNCHANGED <<parents, visible, mainRef, upstreamKind, upstreamOid, nextOid, patch,
                   txCount, pc, args, fetchTx, execTx, loopVars, exitCode, retKind, events, run,
                   prevEvents, prevExit, proc, dag>>

NextTwice ==
    \/ Next
    \/ Restart
    \/ UpstreamAdvance

\* The same sync command run twice on a repository.
SpecTwice == Init /\ [][NextTwice]_vars

----------------------------------------------------------------------------
(* Calls of GitRunInfo::run and GitRunInfo::run_hook *)

\* A caller runs git in a subprocess.
CallRun ==
    /\ \E wd \in WorkingDirectories, tx \in {Nothing} \cup {Some(t) : t \in TxIds},
          outcome \in ChildOutcomes :
          proc' = Run(wd, tx, outcome)
    /\ UNCHANGED <<repoVars, txCount, pc, args, fetchTx, execTx, loopVars, exitCode, retKind,
                   events, histVars, dag>>

\* A caller runs a hook of the repository.
CallRunHook ==
    /\ \E wd \in WorkingDirectories, bare \in BOOLEAN, dir \in BOOLEAN, file \in BOOLEAN,
          tx \in TxIds, stdin \in BOOLEAN, outcome \in HookOutcomes :
          /\ file => dir
          /\ proc' = RunHook(wd, bare, dir, file, tx, stdin, outcome)
    /\ UNCHANGED <<repoVars, txCount, pc, args, fetchTx, execTx, loopVars, exitCode, retKind,
                   events, histVars, dag>>

NextRun ==
    \/ CallRun
    \/ CallRunHook

\* No sync is running; the repository holds the initial commit only.
InitRun ==
    /\ Init
    /\ mainRef = 1
    /\ upstreamKind = "none"
    /\ visible = {1}

\* Subprocess calls on a repository.
SpecRun == InitRun /\ [][NextRun]_vars

----------------------------------------------------------------------------
(* Reading the trace *)

EvAt(evs, op, ph) == {i \in 1..Len(evs) : evs[i].op = op /\ evs[i].phase = ph}
EvOf(evs, op) == {i \in 1..Len(evs) : evs[i].op = op}

\* The positions where a root is reported in one of the three buckets
Reported(evs, root) ==
    {i \in EvOf(evs, "print") : evs[i].res \in Buckets /\ evs[i].oid = root}
ReportedAs(evs, root, bucket) ==
    {i \in EvOf(evs, "print") : evs[i].res = bucket /\ evs[i].oid = root}

\* The roots handed to execute_plans by the phase ph
HandedRoots(evs, ph) == {evs[i].oid : i \in EvAt(evs, "handed", ph)}
HandedWith(evs, ph, plan) ==
    {evs[i].oid : i \in {j \in EvAt(evs, "handed", ph) : evs[j].res = plan}}

ExecOf(evs, ph, root) == {i \in EvAt(evs, "exec", ph) : evs[i].oid = root}
FailedIn(evs, ph) == {i \in EvAt(evs, "exec", ph) : evs[i].res = "Failed"}
Done == pc = "done"

Phases == {"main", "stack"}
BucketLines(evs, ph) == {i \in EvAt(evs, "print", ph) : evs[i].res \in Buckets}

\* The bucket the code owes a root: skipped without a plan, otherwise by the
\* executor's answer
OwedBucket(evs, ph, root) ==
    IF root \in HandedWith(evs, ph, "None") THEN NotMoving
    ELSE IF \E i \in ExecOf(evs, ph, root) : evs[i].res = "Succeeded" THEN Synced
    ELSE MergeConflict

----------------------------------------------------------------------------
(* C1 *)

\* C1 as stated: when sync has ended, every root that was handed to
\* execute_plans is reported exactly once in the three buckets, whatever the
\* executor answered for the other roots.
C1_EveryRootReportedOnce ==
    Done => \A ph \in Phases : \A r \in HandedRoots(events, ph) :
                Cardinality(Reported(events, r)) = 1

\* C1 amended: when sync has ended, every root handed to an execute_plans call
\* that met no Failed executor result is reported exactly once, in the bucket
\* of its outcome; a call that met a Failed result reports nothing at all.
C1_ReportedOnceUnlessFailed ==
    Done => \A ph \in Phases :
        IF FailedIn(events, ph) = {}
        THEN \A r \in HandedRoots(events, ph) :
                /\ Cardinality(Reported(events, r)) = 1
                /\ ReportedAs(events, r, OwedBucket(events, ph, r)) # {}
        ELSE BucketLines(events, ph) = {}

\* Three stack roots, one in each bucket, all reported.
C1_Witness ==
    /\ Done
    /\ FailedIn(events, "stack") = {}
    /\ Cardinality(HandedRoots(events, "stack")) = 3
    /\ \A b \in Buckets : \E i \in BucketLines(events, "stack") : events[i].res = b

----------------------------------------------------------------------------
(* C2 *)

\* C2: a Failed executor result is the last thing the invocation does: sync is
\* over with exactly that exit code, no later plan is executed, and after a
\* failed main-branch advance the stack phase has not begun.
C2_FailedEndsSync ==
    \A i \in EvOf(events, "exec") :
        events[i].res = "Failed" =>
            /\ i = Len(events)
            /\ Done
            /\ retKind = "Ok"
            /\ exitCode = events[i].code
            /\ (events[i].phase = "main" =>
                  /\ mainBranchOid = None
                  /\ \A j \in 1..Len(events) : events[j].phase # "stack")

\* The first stack root fails with exit code 2 while a later root has a plan.
C2_Witness ==
    /\ Done
    /\ exitCode = 2
    /\ phase = "stack"
    /\ idx = 1
    /\ Len(plans) >= 2
    /\ plans[2].plan = "Plan"
    /\ FailedIn(events, "stack") # {}

----------------------------------------------------------------------------
(* C3 *)

\* C3: when a stack's plan ends in a merge conflict and no executor result is
\* Failed, every stack with a plan is still executed exactly once, the
\* conflicting stacks are reported under "Merge conflict for", the others
\* under "Synced", no handed root is missing from the report, and sync ends
\* with exit code 0; a conflict in the main-branch advance ends that step with
\* exit code 0 as well.
C3_ConflictContained ==
    /\ (Done /\ FailedIn(events, "stack") = {}
          /\ (\E i \in EvAt(events, "exec", "stack") : events[i].res = "DeclinedToMerge"))
       => /\ exitCode = 0
          /\ \A r \in HandedRoots(events, "stack") : Cardinality(Reported(events, r)) = 1
          /\ \A r \in HandedWith(events, "stack", "Plan") :
                /\ Cardinality(ExecOf(events, "stack", r)) = 1
                /\ \A i \in ExecOf(events, "stack", r) :
                      ReportedAs(events, r,
                          IF events[i].res = "DeclinedToMerge" THEN MergeConflict
                          ELSE Synced) # {}
    /\ (\E i \in EvAt(events, "exec", "main") : events[i].res = "DeclinedToMerge")
       => ((pc # "execute_plans" \/ phase # "main") => mainExit = 0)

\* Three stacks with plans; only the second meets a merge conflict.
C3_Witness ==
    /\ Done
    /\ exitCode = 0
    /\ phase = "stack"
    /\ Len(plans) = 3
    /\ \A i \in 1..3 : plans[i].plan = "Plan"
    /\ \E i \in ExecOf(events, "stack", plans[1].root) : events[i].res = "Succeeded"
    /\ \E i \in ExecOf(events, "stack", plans[2].root) : events[i].res = "DeclinedToMerge"
    /\ \E i \in ExecOf(events, "stack", plans[3].root) : events[i].res = "Succeeded"

----------------------------------------------------------------------------
(* C4 *)

RevsetMalformed == "bad" \in args.revsets

\* C4 as stated: with a malformed revset sync ends with exit code 1 and has run
\* no fetch and made no mutation, an allocation of a transaction id included.
C4_NothingBeforeSyntaxError ==
    (Done /\ RevsetMalformed) =>
        /\ exitCode = 1
        /\ \A i \in 1..Len(events) : events[i].op \notin {"fetch", "refwrite", "exec", "tx"}

\* C4 amended: with a malformed revset sync ends with exit code 1 right after
\* the syntax check; no fetch has run, no reference was written and no plan was
\* built or executed; the one write it has made is the allocation of the
\* "sync fetch" transaction id, which precedes the check.
C4_OnlyTransactionBeforeSyntaxError ==
    (RevsetMalformed /\ pc # "check_revset_syntax") =>
        /\ Done
        /\ exitCode = 1
        /\ retKind = "Err"
        /\ events = <<TxEv("sync fetch", fetchTx)>>
        /\ execTx = None

\* A pull with a malformed revset has ended.
C4_Witness == Done /\ RevsetMalformed /\ args.pull /\ exitCode = 1

----------------------------------------------------------------------------
(* C5 *)

\* C5: a fetch that exits non-zero is the last thing the invocation does: sync
\* is over with exactly the fetch's exit code; the main reference was neither
\* read nor written, no plan was built or executed and nothing was reported.
C5_FetchFailureEndsSync ==
    \A i \in EvOf(events, "fetch") :
        events[i].code # 0 =>
            /\ Done
            /\ retKind = "Ok"
            /\ exitCode = events[i].code
            /\ events = <<TxEv("sync fetch", fetchTx), FetchEv(fetchTx, events[i].code)>>
            /\ localMainOid = None /\ mainBranchOid = None
            /\ execTx = None

\* The fetch ended with exit code 2.
C5_Witness ==
    /\ Done
    /\ exitCode = 2
    /\ \E i \in EvOf(events, "fetch") : events[i].code = 2

----------------------------------------------------------------------------
(* C6 *)

PlanBuiltOrExecuted(evs) ==
    \E i \in 1..Len(evs) :
        \/ evs[i].op = "exec"
        \/ evs[i].op = "build" /\ evs[i].res = "Plan"

\* The second run reports every stack root as skipped and neither builds nor
\* executes a plan.
SecondRunAllSkipped ==
    /\ \A r \in Roots(DraftCommits) : Cardinality(ReportedAs(events, r, NotMoving)) = 1
    /\ Range(rootOids) = Roots(DraftCommits)
    /\ ~PlanBuiltOrExecuted(events)

\* Both runs of the same command ended with exit code 0, and the remote did
\* not move in between.
TwoCompleteRuns ==
    /\ run = 2
    /\ Done
    /\ prevExit = 0
    /\ exitCode = 0
    /\ ~upstreamChanged

\* C6 as stated (for two runs that both end with exit code 0): with no upstream
\* change in between, the second run reports every stack root as skipped and
\* builds and executes no plan, whatever the repository state.
C6_SecondRunSkipsAll == TwoCompleteRuns => SecondRunAllSkipped

ConflictIn(evs) == \E i \in EvOf(evs, "exec") : evs[i].res = "DeclinedToMerge"

\* C6 amended: if, in addition, the first run met no merge conflict, the
\* second run reports every stack root as skipped and builds and executes no
\* plan.
C6_SecondRunSkipsAllAfterCleanRun ==
    (TwoCompleteRuns /\ ~ConflictIn(prevEvents)) => SecondRunAllSkipped

\* The first run pulled, rebased the main branch and moved two stacks; the
\* second run found both up to date.
C6_Witness ==
    /\ TwoCompleteRuns
    /\ ~ConflictIn(prevEvents)
    /\ \E i \in EvAt(prevEvents, "exec", "main") : prevEvents[i].res = "Succeeded"
    /\ Cardinality({i \in EvAt(prevEvents, "exec", "stack") :
                       prevEvents[i].res = "Succeeded"}) >= 2
    /\ Cardinality(BucketLines(events, "stack")) >= 2

----------------------------------------------------------------------------
(* C7 *)

\* The roots of the stack phase that have no plan: their only parent is the
\* main tip
StackPhaseBegun == mainBranchOid # None
NoPlanIndexes ==
    IF StackPhaseBegun THEN {i \in 1..Len(plans) : plans[i].plan = "None"} ELSE {}

\* C7 as stated: a stack root without a plan is never executed and, once sync
\* has ended, stands in the skipped bucket and in no other.
C7_NoPlanRootReportedSkipped ==
    \A i \in NoPlanIndexes :
        /\ ExecOf(events, "stack", plans[i].root) = {}
        /\ Done => /\ Cardinality(ReportedAs(events, plans[i].root, NotMoving)) = 1
                   /\ Cardinality(Reported(events, plans[i].root)) = 1

\* C7 amended: a stack root whose only parent is the main tip gets no plan; a
\* root without a plan is never executed and never reported as synced or as a
\* merge conflict; when execute_plans reaches its report (no build of another
\* root failed and no executor result was Failed) it stands exactly once in
\* the skipped bucket; and a stack phase whose roots all have no plan ends
\* with exit code 0.
C7_NoPlanRootSkipped ==
    /\ StackPhaseBegun =>
          \A i \in 1..Len(plans) :
              UpToDate(plans[i].root, mainBranchOid) => plans[i].plan = "None"
    /\ \A i \in NoPlanIndexes :
          LET r == plans[i].root IN
          /\ ExecOf(events, "stack", r) = {}
          /\ ReportedAs(events, r, Synced) = {}
          /\ ReportedAs(events, r, MergeConflict) = {}
          /\ (Done /\ r \in HandedRoots(events, "stack") /\ FailedIn(events, "stack") = {})
                => Cardinality(ReportedAs(events, r, NotMoving)) = 1
    /\ (Done /\ HandedRoots(events, "stack") # {}
          /\ HandedWith(events, "stack", "Plan") = {}) => exitCode = 0

\* A root on the main tip is reported as skipped beside a root that was moved.
C7_Witness ==
    /\ Done
    /\ exitCode = 0
    /\ \E i \in NoPlanIndexes :
          /\ UpToDate(plans[i].root, mainBranchOid)
          /\ ReportedAs(events, plans[i].root, NotMoving) # {}
    /\ \E i \in EvAt(events, "exec", "stack") : events[i].res = "Succeeded"

----------------------------------------------------------------------------
(* C8 *)

StackPermissionDenied(i) ==
    /\ events[i].op = "verify"
    /\ events[i].phase = "stack"
    /\ events[i].res = "Err"

\* C8 as stated: when the permission check of the stack roots fails, sync ends
\* with exit code 1 and the invocation has moved no reference and executed no
\* plan, a pull included.
C8_NoMutationAtAll ==
    \A i \in 1..Len(events) :
        StackPermissionDenied(i) =>
            /\ Done /\ exitCode = 1
            /\ EvOf(events, "refwrite") = {}
            /\ EvOf(events, "exec") = {}

\* C8 amended: the permission check of the stack roots fails exactly when a
\* root is public and force_rewrite_public_commits is not set; sync then ends
\* at once with exit code 1 and the stack phase has built and executed no plan;
\* without a pull the invocation has moved no reference and executed no plan
\* at all, while with a pull the main-branch advance has already run.
C8_NoStackMutation ==
    /\ \A i \in 1..Len(events) :
          StackPermissionDenied(i) =>
              /\ i = Len(events)
              /\ Done /\ exitCode = 1 /\ retKind = "Ok"
              /\ ~args.force_rewrite_public_commits
              /\ Range(rootOids) \cap PublicCommits # {}
              /\ EvAt(events, "build", "stack") = {}
              /\ EvAt(events, "exec", "stack") = {}
              /\ ~args.pull => EvOf(events, "refwrite") = {} /\ EvOf(events, "exec") = {}
    /\ (StackPhaseBegun /\ ~args.force_rewrite_public_commits
          /\ Range(rootOids) \cap Anc(parents, mainBranchOid) # {})
       => StackPermissionDenied(Len(events))

\* The public main commit was selected without the override after a pull that
\* fast-forwarded the main branch.
C8_Witness ==
    /\ Done
    /\ exitCode = 1
    /\ args.pull
    /\ StackPermissionDenied(Len(events))
    /\ EvOf(events, "refwrite") # {}

----------------------------------------------------------------------------
(* C9 *)

MainPlanEvents ==
    {i \in 1..Len(events) : events[i].phase = "main"
                            /\ events[i].op \in {"verify", "build", "handed", "exec"}}

\* The main-branch advance has read both OIDs and local main is an ancestor of
\* (or equal to) upstream main.
LocalIsAncestorOfUpstream ==
    /\ localMainOid # None
    /\ upstreamMainOid # None
    /\ localMainOid \in Anc(parents, upstreamMainOid)

\* C9: when local main has no commit that upstream main lacks, the local main
\* reference is set to the upstream tip by create_reference, and neither the
\* permission check nor the plan builder nor the executor runs for the main
\* branch; the step ends with exit code 0.
C9_FastForward ==
    LocalIsAncestorOfUpstream =>
        /\ mainRef = upstreamMainOid
        /\ \E i \in EvOf(events, "refwrite") : events[i].oid = upstreamMainOid
        /\ MainPlanEvents = {}
        /\ mainExit = 0

\* Local main was at commit 1 and is now at the fetched commit 3.
C9_Witness ==
    /\ Done
    /\ localMainOid = 1
    /\ upstreamMainOid = 3
    /\ mainRef = 3

----------------------------------------------------------------------------
(* C10 *)

LocalEqualsUpstream == localMainOid # None /\ localMainOid = upstreamMainOid

\* C10 as stated: when local main already is the upstream tip, the reference
\* keeps its value, no reference write is issued, no plan is built or
\* executed, and the step ends with exit code 0.
C10_NoReferenceWrite ==
    LocalEqualsUpstream =>
        /\ mainRef = localMainOid
        /\ EvOf(events, "refwrite") = {}
        /\ MainPlanEvents = {}
        /\ mainExit = 0

\* C10 amended: when local main already is the upstream tip, "Not updating" is
\* printed, create_reference is still called once and rewrites the reference
\* with the value it has, so that the reference keeps its value; no plan is
\* built or executed and the step ends with exit code 0.
C10_SameValueWritten ==
    LocalEqualsUpstream =>
        /\ mainRef = localMainOid
        /\ Cardinality(EvOf(events, "refwrite")) = 1
        /\ \A i \in EvOf(events, "refwrite") : events[i].oid = localMainOid
        /\ \E i \in EvAt(events, "print", "main") : events[i].res = "Not updating"
        /\ MainPlanEvents = {}
        /\ mainExit = 0

\* A pull found local main at the upstream tip, and sync has ended.
C10_Witness ==
    /\ Done
    /\ LocalEqualsUpstream
    /\ mainRef = upstreamMainOid
    /\ EvOf(events, "refwrite") # {}

----------------------------------------------------------------------------
(* C11 *)

\* The main-branch advance has returned after finding commits that local main
\* has and upstream main lacks.
MainAdvanceEndedWithLocalCommits == mainExit # Running /\ localCommits # {}

\* C11: whenever the main-branch advance found unique local commits, it has
\* passed the permission check with force_rewrite_public_commits = TRUE, has
\* asked the builder for a plan that moves the root of those commits onto the
\* upstream tip, with the override set, and a plan the builder gave was handed
\* to execute_plans as the only root and executed once.
C11_MainPlanBuiltAndExecuted ==
    MainAdvanceEndedWithLocalCommits =>
        /\ \E i \in EvAt(events, "verify", "main") : events[i].force /\ events[i].res = "Ok"
        /\ \E i \in EvAt(events, "build", "main") :
              /\ events[i].oid \in Roots(localCommits)
              /\ events[i].force
              /\ (events[i].res = "Plan" =>
                    /\ HandedRoots(events, "main") = {events[i].oid}
                    /\ Cardinality(ExecOf(events, "main", events[i].oid)) = 1)

\* Local main is a merge of two commits that upstream lacks: the advance has
\* returned exit code 0 without asking the builder for anything, and sync has
\* gone on to the stack phase with main where it was.
C11_Witness ==
    /\ Done
    /\ mainExit = 0
    /\ Cardinality(Roots(localCommits)) = 2
    /\ EvAt(events, "build", "main") = {}
    /\ mainRef = localMainOid
    /\ StackPhaseBegun

----------------------------------------------------------------------------
(* C12 *)

TxEvents(evs) == {i \in EvOf(evs, "tx") : evs[i].tx \in 1..txCount}

\* C12: an invocation that has begun has allocated a transaction id in the
\* event log: the "sync fetch" transaction is its first effect, and it is
\* there on every path on which sync ends, whether or not anything was
\* rewritten.
C12_TransactionAllocated ==
    pc # "idle" =>
        /\ txCount >= 1
        /\ fetchTx \in 1..txCount
        /\ Len(events) >= 1
        /\ events[1] = TxEv("sync fetch", fetchTx)
        /\ TxEvents(events) # {}

\* A sync without a pull found two stacks up to date: nothing was rewritten
\* and no reference was written, and two transaction ids were allocated.
C12_Witness ==
    /\ Done
    /\ exitCode = 0
    /\ EvOf(events, "exec") = {}
    /\ EvOf(events, "refwrite") = {}
    /\ Len(skipped) >= 2
    /\ Cardinality(TxEvents(events)) = 2

----------------------------------------------------------------------------
(* C13 *)

\* The side effects that are tagged with a transaction id: the external fetch
\* and the plan executions
TaggedEffects(evs) == EvOf(evs, "fetch") \cup EvOf(evs, "exec")

\* C13: the fetch and every plan execution of one invocation carry one and the
\* same transaction id.
C13_OneTransactionPerSync ==
    \A i \in TaggedEffects(events) : \A j \in TaggedEffects(events) :
        events[i].tx = events[j].tx

\* A pull fetched under the "sync fetch" transaction and then moved a stack
\* under the "sync" transaction, which is another id.
C13_Witness ==
    /\ Done
    /\ exitCode = 0
    /\ \E i \in EvOf(events, "fetch") : events[i].tx = fetchTx
    /\ \E i \in EvAt(events, "exec", "stack") :
          events[i].res = "Succeeded" /\ events[i].tx = execTx
    /\ fetchTx # execTx

----------------------------------------------------------------------------
(* C14 *)

\* The main-branch advance could not follow upstream: the upstream branch or
\* its OID is missing, or the unique commits of local main have no single root
MainAdvanceGaveUp ==
    /\ mainExit # Running
    /\ \/ localMainOid # None /\ upstreamMainOid = None
       \/ localCommits # {} /\ Cardinality(Roots(localCommits)) # 1

\* A failure inside sync that must end the invocation: a refused permission
\* check, a build error, a fetch or an executor that ended non-zero
AbortingFailure(e) ==
    \/ e.op \in {"verify", "build"} /\ e.res = "Err"
    \/ e.op = "fetch" /\ e.code # 0
    \/ e.op = "exec" /\ e.res = "Failed"

\* The child of run_hook did not end with exit code 0, or could not be run
HookFailed ==
    /\ proc.fn = "run_hook"
    /\ \/ proc.spawn = "failed"
       \/ proc.spawn = "started" /\ ~(proc.status.kind = "exited" /\ proc.status.code = 0)

\* C14: no failure is swallowed. In sync, a failure that aborts leaves a
\* non-zero exit code or an error, a merge conflict is either reported in its
\* bucket or followed by such an exit, and a main-branch advance that could
\* not follow upstream ends non-zero; in run_hook, a hook that failed makes
\* run_hook return an error.
C14_NoFailureSwallowed ==
    /\ Done =>
          /\ \A i \in 1..Len(events) :
                AbortingFailure(events[i]) => (exitCode # 0 \/ retKind = "Err")
          /\ \A i \in EvOf(events, "exec") :
                events[i].res = "DeclinedToMerge" =>
                    \/ ReportedAs(events, events[i].oid, MergeConflict) # {}
                    \/ exitCode # 0
          /\ MainAdvanceGaveUp => mainExit # 0
    /\ HookFailed => proc.ret = "Err"

\* A hook that exists was run, exited with code 1, and run_hook returned Ok.
C14_Witness ==
    /\ proc.fn = "run_hook"
    /\ proc.spawn = "started"
    /\ proc.status = [kind |-> "exited", code |-> 1]
    /\ proc.ret = "Ok"

----------------------------------------------------------------------------
(* C15 *)

\* GitRunInfo::run has waited for its child
RunReturned == proc.fn = "run" /\ proc.spawn = "started"
ExitedWith(st, c) == st.kind = "exited" /\ st.code = c

\* C15 as stated: run returns 0 exactly when the child succeeded, and for
\* every other termination the value the child ended with, a signal included.
C15_ExitCodeVerbatim ==
    RunReturned =>
        /\ proc.ret = "Ok"
        /\ (proc.code = Some(0) <=> ExitedWith(proc.status, 0))
        /\ (~ExitedWith(proc.status, 0) => proc.code = Some(proc.status.code))

\* C15 amended: run returns the child's exit code verbatim whenever the child
\* exited, so 0 exactly when it succeeded; for a child terminated by a signal,
\* which has no exit code, run returns 1 whatever the signal; and when the
\* child cannot be spawned run returns an error and no code.
C15_ExitCodeVerbatimUnlessSignaled ==
    /\ RunReturned =>
          /\ proc.ret = "Ok"
          /\ (proc.code = Some(0) <=> ExitedWith(proc.status, 0))
          /\ (proc.status.kind = "exited" => proc.code = Some(proc.status.code))
          /\ (proc.status.kind = "signaled" => proc.code = Some(1))
    /\ (proc.fn = "run" /\ proc.spawn = "failed") =>
          proc.ret = "Err" /\ proc.code = Nothing

\* git was killed by signal 9 and run returned 1.
C15_Witness ==
    /\ RunReturned
    /\ proc.status = [kind |-> "signaled", code |-> 9]
    /\ proc.code = Some(1)

----------------------------------------------------------------------------
(* C16 *)

HookCalled == proc.fn = "run_hook"

\* C16: run_hook starts a process only for a hook file that exists, and starts
\* one for every such file unless it returns an error; for a hook that does
\* not exist it spawns nothing and returns Ok; the process it starts runs in
\* the root of the working tree (of a repository that has one), whatever
\* GitRunInfo.working_directory is, with the transaction id of the call in its
\* environment.
C16_HookRunsIffExists ==
    HookCalled =>
        /\ (proc.spawn # "none" => proc.hook_exists)
        /\ ((proc.hook_exists /\ proc.ret = "Ok") => proc.spawn = "started")
        /\ (~proc.hook_exists => proc.spawn = "none" /\ proc.ret = "Ok")
        /\ (proc.spawn = "started" =>
              /\ (~proc.bare => proc.cwd = Worktree)
              /\ proc.env_tx = proc.event_tx_id)

\* The hook directory does not exist, hence neither does the hook: run_hook
\* has spawned nothing and returned an error.
C16_Witness ==
    /\ HookCalled
    /\ ~proc.hook_dir_exists
    /\ ~proc.hook_exists
    /\ proc.spawn = "none"
    /\ proc.ret = "Err"

----------------------------------------------------------------------------
(* C17 *)

\* Two different commits on the lineage of tip carry the same patch identity
DuplicateOnLineage(tip) ==
    \E x \in Anc(parents, tip) : \E y \in Anc(parents, tip) :
        x # y /\ patch[x] = patch[y]

\* The stack roots whose plan the stack phase has executed with success
MovedRoots == {events[i].oid : i \in {j \in EvAt(events, "exec", "stack") :
                                         events[j].res = "Succeeded"}}

\* C17: with detect_duplicate_commits_via_patch_id set, every plan of the
\* stack phase is built with detection on and classifies as skip exactly the
\* commits of its stack whose patch identity is already on the lineage of the
\* main tip; a moved stack leaves none of its old commits visible, and no
\* visible commit has the same patch identity twice on its lineage down to
\* main.
C17_NoDuplicateAfterSync ==
    args.detect_duplicate_commits_via_patch_id =>
        /\ \A i \in EvAt(events, "build", "stack") : events[i].detect
        /\ (phase = "stack" /\ pc = "execute_plans" /\ idx = 1) =>
              \A i \in 1..Len(plans) :
                 plans[i].plan = "Plan" =>
                    plans[i].skip =
                       {c \in Subtree(plans[i].root) :
                           \E d \in Anc(parents, mainBranchOid) : patch[d] = patch[c]}
        /\ \A r \in MovedRoots : r \notin visible
        /\ \A c \in visible : ~DuplicateOnLineage(c)

\* After a pull that fast-forwarded main to commit 3, the stack whose root
\* carries the patch of commit 3 was moved with detection on: its root was
\* skipped, is reported as synced, and nothing else carries that patch.
C17_Witness ==
    /\ Done
    /\ args.detect_duplicate_commits_via_patch_id
    /\ mainRef = 3
    /\ StackOid(1) \in MovedRoots
    /\ ReportedAs(events, StackOid(1), Synced) # {}
    /\ {c \in visible : patch[c] = patch[3]} = {3}

----------------------------------------------------------------------------
(* C18 *)

StackBuildErrors == {i \in EvAt(events, "build", "stack") : events[i].res = "Err"}
InStackExecution == phase = "stack" /\ pc = "execute_plans"

\* C18: every build of the stack phase precedes every execution of the stack
\* phase; execute_plans is entered with one result per root, none of them an
\* error; and once the build of a root has failed, no stack plan is handed to
\* execute_plans or executed, the repository stays as the stack phase found
\* it, and sync ends with exit code 1 when the builds are over.
C18_BuildsBeforeExecution ==
    /\ \A i \in EvAt(events, "exec", "stack") :
          \A j \in EvAt(events, "build", "stack") : j < i
    /\ InStackExecution =>
          /\ Len(plans) = Len(rootOids)
          /\ \A k \in 1..Len(plans) :
                plans[k].root = rootOids[k] /\ plans[k].plan \in {"Plan", "None"}
    /\ StackBuildErrors # {} =>
          /\ EvAt(events, "exec", "stack") = {}
          /\ HandedRoots(events, "stack") = {}
          /\ mainRef = mainBranchOid
          /\ \A k \in 1..Len(rootOids) : rootOids[k] \in visible
          /\ (pc # "stack_build" => Done /\ exitCode = 1 /\ retKind = "Ok")

\* The plan of the first root was built, the build of the second failed: sync
\* has ended with exit code 1 and the first plan was not executed.
C18_Witness ==
    /\ Done
    /\ exitCode = 1
    /\ Len(plans) >= 2
    /\ plans[1].plan = "Plan"
    /\ plans[2].plan = "Err"
    /\ EvAt(events, "exec", "stack") = {}

----------------------------------------------------------------------------
(* C19 *)

\* Position of a root in the sorted root list
IndexOf(seq, x) == CHOOSE k \in 1..Len(seq) : seq[k] = x

\* Executions of the stack phase whose result has come back to the loop
ReturnedExecutions == Len(success) + Len(conflict) + Cardinality(FailedIn(events, "stack"))

\* C19: the root list is sorted and free of duplicates; the plans of the stack
\* phase are executed in the order of that list, each root at most once; and
\* whenever the loop stands between two iterations every execution that was
\* started has returned its result, so no two executions overlap.
C19_SequentialExecution ==
    /\ \A a \in 1..Len(rootOids) : \A b \in 1..Len(rootOids) :
          a < b => rootOids[a] < rootOids[b]
    /\ \A ph \in Phases : \A r \in HandedRoots(events, ph) :
          Cardinality(ExecOf(events, ph, r)) <= 1
    /\ \A i \in EvAt(events, "exec", "stack") :
          /\ events[i].oid \in Range(rootOids)
          /\ \A j \in EvAt(events, "exec", "stack") :
                i < j => IndexOf(rootOids, events[i].oid) < IndexOf(rootOids, events[j].oid)
    /\ phase = "stack" =>
          /\ Cardinality(EvAt(events, "exec", "stack")) = ReturnedExecutions
          /\ (pc = "execute_plans" =>
                Cardinality(EvAt(events, "exec", "stack")) + Len(skipped) = idx - 1)

\* Three stacks were moved one after the other.
C19_Witness ==
    /\ Done
    /\ Len(rootOids) = 3
    /\ Cardinality(EvAt(events, "exec", "stack")) = 3
    /\ \A i \in EvAt(events, "exec", "stack") : events[i].res = "Succeeded"

----------------------------------------------------------------------------
(* C20 *)

\* C20: the main-branch OID of the stack phase is the value the main reference
\* has after the main-branch advance: the OID create_reference wrote, or the
\* rewritten main after a rebase of main, and never a commit the advance
\* replaced. It is the one value every root is tested against and moved onto:
\* a root has no plan and no destination exactly when its only parent is that
\* OID, and every other root has that OID as destination.
C20_MainOidReadOnceAfterAdvance ==
    StackPhaseBegun =>
        /\ mainBranchOid = mainRef
        /\ \A i \in EvOf(events, "refwrite") : mainBranchOid = events[i].oid
        /\ \A i \in EvAt(events, "exec", "main") :
              events[i].res = "Succeeded" =>
                 /\ mainBranchOid # localMainOid
                 /\ mainBranchOid \notin localCommits
                 /\ upstreamMainOid \in Anc(parents, mainBranchOid)
        /\ \A k \in 1..Len(plans) :
              IF OnlyParent(plans[k].root) = mainBranchOid
              THEN plans[k].plan = "None" /\ plans[k].dest = None
              ELSE plans[k].dest = mainBranchOid
        /\ \A i \in EvAt(events, "build", "stack") :
              OnlyParent(events[i].oid) # mainBranchOid

\* A pull fast-forwarded main from commit 1 to commit 3; a stack that sat on
\* the old tip was moved onto commit 3.
C20_Witness ==
    /\ Done
    /\ args.pull
    /\ localMainOid = 1
    /\ mainBranchOid = 3
    /\ \E k \in 1..Len(plans) :
          /\ OnlyParent(plans[k].root) = localMainOid
          /\ plans[k].dest = 3
          /\ \E i \in ExecOf(events, "stack", plans[k].root) : events[i].res = "Succeeded"

----------------------------------------------------------------------------
(* C21 *)

\* The draft commits that have no draft ancestor
DraftBases ==
    {c \in DraftCommits : (Anc(parents, c) \ {c}) \cap DraftCommits = {}}

\* The commits the selectors of the invocation resolve to
SelectedCommits ==
    (IF "draft" \in args.revsets THEN DraftCommits ELSE {})
    \cup (IF "main" \in args.revsets THEN {mainRef} ELSE {})

\* The roots in the order in which they were handed to execute_plans
HandedSeq(evs, ph) ==
    LET at == SortedSeq(EvAt(evs, "handed", ph))
    IN [k \in 1..Len(at) |-> evs[at[k]].oid]

\* The stack phase has computed its roots and has not touched the graph yet
RootsComputed == pc = "stack_build" \/ (InStackExecution /\ idx = 1)

\* C21: when the stack phase has computed its roots, they are, without
\* selectors, exactly the draft commits that have no draft ancestor and, with
\* selectors, exactly the commits of the union of the resolved sets that have
\* no parent in that union; the list is in the order of sorted_commit_set and
\* the roots are handed to execute_plans in that order.
C21_RootsProcessed ==
    /\ RootsComputed =>
          /\ Range(rootOids) =
                (IF args.revsets = {} THEN DraftBases
                 ELSE {c \in SelectedCommits : parents[c] \cap SelectedCommits = {}})
          /\ rootOids = SortedSeq(Range(rootOids))
    /\ InStackExecution => HandedSeq(events, "stack") = rootOids

\* Without selectors, on a repository with the two disjoint draft chains 2 - 7
\* and 6, the roots handed to execute_plans are the two chain bases 2 and 6.
C21_Witness ==
    /\ InStackExecution
    /\ idx = 1
    /\ args.revsets = {}
    /\ DraftCommits = {2, 6, 7}
    /\ rootOids = <<2, 6>>
    /\ HandedSeq(events, "stack") = <<2, 6>>

----------------------------------------------------------------------------
(* C22 *)

\* Two different commits that are both ancestors of one draft commit
UnderOneMerge(a, b) ==
    /\ a # b
    /\ \E m \in DraftCommits : a \in Anc(parents, m) /\ b \in Anc(parents, m)

AllStacksSelected == args.revsets \in {{}, {"draft"}}

BuildsOf(evs, root) == {i \in EvAt(evs, "build", "stack") : evs[i].oid = root}

\* C22: two draft roots under one merge commit are two entries of the root
\* list; every root that is not up to date gets a build of its own, with the
\* main tip as its destination, every plan is handed to execute_plans under
\* its own root, and when sync ends with exit code 0 every plan has been
\* executed once, on its own.
C22_IndependentUnits ==
    /\ (RootsComputed /\ AllStacksSelected) =>
          \A a \in DraftBases : \A b \in DraftBases :
              UnderOneMerge(a, b) =>
                  /\ a \in Range(rootOids)
                  /\ b \in Range(rootOids)
                  /\ \E m \in Subtree(a) \cap Subtree(b) : m \notin {a, b}
    /\ InStackExecution =>
          \A k \in 1..Len(plans) :
              plans[k].plan = "Plan" =>
                  /\ Cardinality(BuildsOf(events, plans[k].root)) = 1
                  /\ plans[k].dest = mainBranchOid
                  /\ plans[k].root \in HandedWith(events, "stack", "Plan")
    /\ (Done /\ phase = "stack" /\ exitCode = 0) =>
          \A k \in 1..Len(plans) :
              plans[k].plan = "Plan" =>
                  Cardinality(ExecOf(events, "stack", plans[k].root)) = 1

\* The draft roots 2 and 4 under the merge commit 5 were moved by two plans,
\* one after the other; each plan rewrote the merge commit, so two copies of
\* it are visible.
C22_Witness ==
    /\ Done
    /\ exitCode = 0
    /\ MergeOid \in dag
    /\ \E i \in ExecOf(events, "stack", 2) : events[i].res = "Succeeded"
    /\ \E i \in ExecOf(events, "stack", 4) : events[i].res = "Succeeded"
    /\ Cardinality({c \in visible : patch[c] = patch[MergeOid]}) = 2

----------------------------------------------------------------------------
(* C23 *)

FetchSucceeded == \E i \in EvOf(events, "fetch") : events[i].code = 0
MainAdvanceStarted == localMainOid # None
MainAdvanceRunning == pc \in {"main_open", "main_verify", "main_build"}
                      \/ (pc = "execute_plans" /\ phase = "main")
StackPhaseStarted == pc \in {"stack_open", "stack_verify", "stack_build"} \/ StackPhaseBegun
EventsOfPhase(evs, ph) == {i \in 1..Len(evs) : evs[i].phase = ph}

\* Every phase before the stack phase has ended with success
EarlierPhasesSucceeded ==
    /\ SyntaxOk(args.revsets)
    /\ args.pull => (FetchSucceeded /\ mainExit = 0)

\* C23: without a pull there is no fetch and no main-branch advance, and the
\* main reference stays where it was; the main-branch advance starts only for
\* a pull whose fetch has returned exit code 0; the stack phase starts only
\* when the main-branch advance, if any, has returned, its effects all precede
\* those of the stack phase, and a sync that has ended has gone through the
\* stack phase exactly when every earlier phase ended with success - after a
\* merge conflict in the main-branch advance and without an upstream too.
C23_PhaseOrder ==
    /\ (pc # "idle" /\ ~args.pull) =>
          /\ EvOf(events, "fetch") = {}
          /\ ~MainAdvanceStarted
          /\ mainExit = Running
          /\ EventsOfPhase(events, "main") = {}
          /\ EvOf(events, "refwrite") = {}
    /\ (MainAdvanceStarted \/ MainAdvanceRunning) =>
          /\ args.pull
          /\ FetchSucceeded
          /\ \A i \in EvOf(events, "fetch") : \A j \in EventsOfPhase(events, "main") : i < j
    /\ StackPhaseStarted =>
          /\ ~MainAdvanceRunning
          /\ EarlierPhasesSucceeded
          /\ \A i \in EventsOfPhase(events, "main") :
                \A j \in EventsOfPhase(events, "stack") : i < j
    /\ (Done /\ ResolveOk(args.revsets)) => (StackPhaseBegun <=> EarlierPhasesSucceeded)
    /\ (Done /\ ~ResolveOk(args.revsets) /\ EarlierPhasesSucceeded) =>
          (exitCode = 1 /\ retKind = "Ok" /\ dag # {})

\* The rebase of main met a merge conflict; the stack phase ran all the same
\* and moved a stack.
C23_Witness ==
    /\ Done
    /\ args.pull
    /\ \E i \in EvAt(events, "exec", "main") : events[i].res = "DeclinedToMerge"
    /\ mainExit = 0
    /\ \E i \in EvAt(events, "exec", "stack") : events[i].res = "Succeeded"

----------------------------------------------------------------------------
(* C24 *)

OptionsGiven(ph) == EvAt(events, "verify", ph) \cup EvAt(events, "build", ph)

\* C24: every permission check and every plan build of the stack phase is
\* given the user's force_rewrite_public_commits and
\* detect_duplicate_commits_via_patch_id, after a main-branch advance too;
\* those of the main-branch advance are given force_rewrite_public_commits =
\* TRUE and the user's detect_duplicate_commits_via_patch_id.
C24_OverrideConfined ==
    /\ \A i \in OptionsGiven("stack") :
          /\ events[i].force = args.force_rewrite_public_commits
          /\ events[i].detect = args.detect_duplicate_commits_via_patch_id
    /\ \A i \in OptionsGiven("main") :
          /\ events[i].force = TRUE
          /\ events[i].detect = args.detect_duplicate_commits_via_patch_id

\* The user did not force and asked for duplicate detection; the main-branch
\* advance built its plan with the override, and the stack phase then checked
\* and built without it.
C24_Witness ==
    /\ ~args.force_rewrite_public_commits
    /\ args.detect_duplicate_commits_via_patch_id
    /\ \E i \in EvAt(events, "build", "main") :
          /\ events[i].force /\ events[i].detect
          /\ \E j \in EvAt(events, "verify", "stack") : i < j /\ ~events[j].force /\ events[j].detect
          /\ \E j \in EvAt(events, "build", "stack") : i < j /\ ~events[j].force /\ events[j].detect
====
